---- MODULE Spec2Model ----
(***************************************************************************)
(* Model of the AI story generator (src/app.py): the retry wrapper         *)
(* safe_api_call, the two generators built on it, the orchestrator         *)
(* create_story_app, display_story and main's failure handler.             *)
(*                                                                         *)
(* Two specifications:                                                     *)
(*   Spec      the Streamlit script: every user interaction reruns main(). *)
(*   SpecExec  safe_api_call alone, called once with max_retries and       *)
(*             base_delay drawn from bounded sets and a callable whose     *)
(*             every invocation may return a value or raise an error.      *)
(***************************************************************************)
EXTENDS Integers, Sequences, FiniteSets, TLC

VARIABLES
    mpc,          \* main(): "idle" | "generating" | "display" | "exec" (SpecExec harness)
    stage,        \* create_story_app: "IDLE" | "GENERATING_IMAGE" | "GENERATING_STORY" | "DONE" | "FAILED"
    topic,        \* the text_input value of the current script run
    image_url,    \* create_story_app's local image_url
    story,        \* create_story_app's local story
    reason,       \* the exception that reached main's handler (its str(e))
    gen_result,   \* what each generator call yielded: <<"pending">>, <<"return", v>>, <<"raise", e>>
    trace,        \* everything the current script run emitted, in order: st.* calls,
                  \* time.sleep calls and requests sent to the remote service
    runs,         \* number of script runs so far
    pc,           \* safe_api_call: "idle" | "for" | "func" | "return" | "raise"
    func,         \* the callable passed to safe_api_call (the request it sends)
    max_retries,  \* safe_api_call's parameter
    base_delay,   \* safe_api_call's parameter
    attempt,      \* safe_api_call's loop variable
    calls,        \* number of invocations of func by the current safe_api_call
    hist,         \* outcome of each invocation of func by the current safe_api_call
    result        \* value returned, or error raised, by safe_api_call

vars == <<mpc, stage, topic, image_url, story, reason, gen_result, trace, runs,
          pc, func, max_retries, base_delay, attempt, calls, hist, result>>

execVars == <<pc, func, max_retries, base_delay, attempt, calls, hist, result>>
appVars  == <<mpc, stage, topic, image_url, story, reason, gen_result, runs>>

----------------------------------------------------------------------------
(* Bounds of the model *)

MaxRuns == 2          \* script runs explored by Spec
MaxRetriesArg == 4    \* SpecExec: max_retries ranges over -1 .. MaxRetriesArg
MaxBaseDelayArg == 3  \* SpecExec: base_delay ranges over 0 .. MaxBaseDelayArg

(* Program constants *)

DefaultMaxRetries == 3
DefaultBaseDelay == 2
StagePause == 2

----------------------------------------------------------------------------
(* Python values.  A str is <<"str", s>>, None is <<"None">>. *)

None == <<"None">>
Unset == <<"unset">>
Str(s) == <<"str", s>>

\* mutants of Truthy: the empty string taken for a result; the test inverted
TruthyNotNone(v) == v[1] = "str"
TruthyInverted(v) == ~(v[1] = "str" /\ v[2] # "")

\* Python truthiness of a str-or-None value: `not v` is true for None and "".
Truthy(v) == v[1] = "str" /\ v[2] # ""

\* Error texts (str(e)) are sequences of characters, so that the substring
\* test of safe_api_call is computed, not assumed.
RateLimitText == <<"E", "r", "r", "o", "r", " ", "4", "2", "9">>
AuthText      == <<"E", "r", "r", "o", "r", " ", "4", "0", "1">>
RequestIdText == <<"5", "0", "0", " ", "r", "e", "q", " ", "1", "4", "2", "9", "0">>
TimeoutText   == <<"t", "i", "m", "e", "d", " ", "o", "u", "t">>

ErrTexts == {RateLimitText, AuthText, RequestIdText, TimeoutText}

\* sub in s  (Python's substring test on str)
Contains(sub, s) ==
    \E i \in 0..(Len(s) - Len(sub)) :
        \A j \in 1..Len(sub) : s[i + j] = sub[j]

Marker429 == <<"4", "2", "9">>

\* "429" in str(e)
IsRateLimit(e) == Contains(Marker429, e)

\* mutants of ShouldRetry: one retry too few; no bound on the attempts;
\* every error retried
ShouldRetryOffByOne(e, a, mr) == IsRateLimit(e) /\ a < mr - 2
ShouldRetryNoBound(e, a, mr) == IsRateLimit(e)
ShouldRetryAnyError(e, a, mr) == a < mr - 1

\* "429" in str(e) and attempt < max_retries - 1
ShouldRetry(e, a, mr) == IsRateLimit(e) /\ a < mr - 1

\* mutant of Delay: the zero-based attempt index used as the factor
DelayZeroBased(bd, a) == bd * a

\* delay = base_delay * (attempt + 1)
Delay(bd, a) == bd * (a + 1)

\* mutant of IsLastAttempt: the message emitted for every propagated error
IsLastAttemptAlways(a, mr) == TRUE

\* mutant of IsLastAttempt: compared with max_retries instead of max_retries - 1
IsLastAttemptOffByOne(a, mr) == a = mr

\* attempt == max_retries - 1
IsLastAttempt(a, mr) == a = mr - 1

\* for attempt in range(max_retries): whether index a is in the range
InRange(a, mr) == a >= 0 /\ a < mr

----------------------------------------------------------------------------
(* What the remote service may answer *)

ImageUrls == {Str("https://img/1"), Str(""), None}
StoryTexts == {Str("Once upon a time"), Str(""), None}
StubValues == {Str("ok"), Str(""), None}

Topics == {"", "a magical forest", "a robot"}

\* the closures make_request of generate_image / generate_story, and a stub
ImageRequest(t) == <<"images.generate", <<"image_prompt", t>> >>
StoryRequest(u, t) == <<"chat.completions.create", <<"story_prompt", u, t>> >>
StubRequest == <<"stub", <<>> >>

ReturnValues(f) ==
    IF f[1] = "images.generate" THEN ImageUrls
    ELSE IF f[1] = "chat.completions.create" THEN StoryTexts
    ELSE StubValues

----------------------------------------------------------------------------
(* safe_api_call *)

\* mutant of EnterSafeApiCall: the attempt counter kept from the previous call
EnterSafeApiCallKeepAttempt(f, mr, bd) ==
    /\ pc' = "for"
    /\ func' = f
    /\ max_retries' = mr
    /\ base_delay' = bd
    /\ attempt' = attempt
    /\ calls' = 0
    /\ hist' = <<>>
    /\ result' = Unset

\* entry of safe_api_call(f, mr, bd)
EnterSafeApiCall(f, mr, bd) ==
    /\ pc' = "for"
    /\ func' = f
    /\ max_retries' = mr
    /\ base_delay' = bd
    /\ attempt' = 0
    /\ calls' = 0
    /\ hist' = <<>>
    /\ result' = Unset

\* the loop header: either invoke func() for this attempt or fall through
ForLoop ==
    /\ pc = "for"
    /\ IF InRange(attempt, max_retries)
       THEN /\ pc' = "func"
            /\ calls' = calls + 1
            /\ trace' = Append(trace, <<"request", func[1], func[2]>>)
            /\ UNCHANGED result
       ELSE /\ pc' = "return"
            /\ result' = None
            /\ UNCHANGED <<calls, trace>>
    /\ UNCHANGED <<func, max_retries, base_delay, attempt, hist>>
    /\ UNCHANGED appVars

\* func() returns v: return func()
FuncReturns(v) ==
    /\ pc = "func"
    /\ v \in ReturnValues(func)
    /\ hist' = Append(hist, <<"return", v>>)
    /\ pc' = "return"
    /\ result' = v
    /\ UNCHANGED <<func, max_retries, base_delay, attempt, calls, trace>>
    /\ UNCHANGED appVars

\* mutant of FuncRaises: time.sleep called before st.warning
FuncRaisesSleepFirst(e) ==
    /\ pc = "func"
    /\ e \in ErrTexts
    /\ hist' = Append(hist, <<"raise", e>>)
    /\ IF ShouldRetry(e, attempt, max_retries)
       THEN /\ trace' = trace \o
                  << <<"sleep", Delay(base_delay, attempt), "safe_api_call">>,
                     <<"warning", Delay(base_delay, attempt), attempt + 2>> >>
            /\ attempt' = attempt + 1
            /\ pc' = "for"
            /\ UNCHANGED result
       ELSE /\ trace' = trace \o
                  (IF IsLastAttempt(attempt, max_retries)
                   THEN << <<"error", "Failed after", max_retries, e>> >>
                   ELSE <<>>)
            /\ pc' = "raise"
            /\ result' = e
            /\ UNCHANGED attempt
    /\ UNCHANGED <<func, max_retries, base_delay, calls>>
    /\ UNCHANGED appVars

\* func() raises an exception whose text is e: the except clause
FuncRaises(e) ==
    /\ pc = "func"
    /\ e \in ErrTexts
    /\ hist' = Append(hist, <<"raise", e>>)
    /\ IF ShouldRetry(e, attempt, max_retries)
       THEN /\ trace' = trace \o
                  << <<"warning", Delay(base_delay, attempt), attempt + 2>>,
                     <<"sleep", Delay(base_delay, attempt), "safe_api_call">> >>
            /\ attempt' = attempt + 1
            /\ pc' = "for"
            /\ UNCHANGED result
       ELSE /\ trace' = trace \o
                  (IF IsLastAttempt(attempt, max_retries)
                   THEN << <<"error", "Failed after", max_retries, e>> >>
                   ELSE <<>>)
            /\ pc' = "raise"
            /\ result' = e
            /\ UNCHANGED attempt
    /\ UNCHANGED <<func, max_retries, base_delay, calls>>
    /\ UNCHANGED appVars

----------------------------------------------------------------------------
(* SpecExec: one call of safe_api_call *)

InitExec ==
    /\ mpc = "exec"
    /\ stage = "IDLE"
    /\ topic = ""
    /\ image_url = Unset
    /\ story = Unset
    /\ reason = Unset
    /\ gen_result = [image |-> <<"pending">>, story |-> <<"pending">>]
    /\ trace = <<>>
    /\ runs = 0
    /\ pc = "for"
    /\ func = StubRequest
    /\ max_retries \in -1..MaxRetriesArg
    /\ base_delay \in 0..MaxBaseDelayArg
    /\ attempt = 0
    /\ calls = 0
    /\ hist = <<>>
    /\ result = Unset

NextExec ==
    \/ ForLoop
    \/ \E v \in StubValues : FuncReturns(v)
    \/ \E e \in ErrTexts : FuncRaises(e)

SpecExec == InitExec /\ [][NextExec]_vars

----------------------------------------------------------------------------
(* The Streamlit script: main, create_story_app, the generators *)

ImageFailedText == <<"I", "m", "a", "g", "e", " ", "g", "e", "n", "e", "r", "a", "t", "i", "o", "n", " ", "f", "a", "i", "l", "e", "d">>
StoryFailedText == <<"S", "t", "o", "r", "y", " ", "g", "e", "n", "e", "r", "a", "t", "i", "o", "n", " ", "f", "a", "i", "l", "e", "d">>
SecretsErrText  == <<"n", "o", " ", "s", "e", "c", "r", "e", "t", "s">>
DecodeErrText   == <<"c", "a", "n", "n", "o", "t", " ", "i", "d", "e", "n", "t", "i", "f", "y", " ", "i", "m", "a", "g", "e">>

\* outcomes of requests.get + Image.open + st.image in display_story
FetchOutcomes == {<<"ok">>, <<"raise", TimeoutText>>, <<"raise", DecodeErrText>>}

\* st.title, st.write before the input widgets
Header ==
    << <<"title", "AI Story Generator">>,
       <<"write", "Generate a unique story with an AI-generated image based on your topic!">> >>

\* the footer main always renders
Footer ==
    << <<"markdown", "---">>, <<"markdown", "Created with love By BuildFastWithAI">> >>

\* main's except clause, e the text of the exception caught
Handler(e) ==
    << <<"error", "Something went wrong!">>,
       <<"error", "Error details", e>>,
       <<"markdown", "### Troubleshooting Tips:">>,
       <<"write", "1. Check if your API key is correctly set in secrets.toml">>,
       <<"write", "2. Try again in a few minutes if the service is busy">>,
       <<"write", "3. Make sure your topic is clear and appropriate">>,
       <<"write", "4. Check your internet connection">> >>

\* mutant of DisplayOutput: the story rendered inside the try block, after the image
DisplayOutputStoryInTry(u, s, f) ==
    IF f[1] = "ok"
    THEN << <<"image", u>>, <<"markdown", "### Your Story">>, <<"write", s>> >>
    ELSE << <<"error", "Image display failed. Here's the URL:">>,
            <<"code", u>>,
            <<"error", "Error details", f[2]>> >>

\* display_story(u, s) when fetching and decoding the image ends as f
DisplayOutput(u, s, f) ==
    (IF f[1] = "ok"
     THEN << <<"image", u>> >>
     ELSE << <<"error", "Image display failed. Here's the URL:">>,
             <<"code", u>>,
             <<"error", "Error details", f[2]>> >>)
    \o << <<"markdown", "### Your Story">>, <<"write", s>> >>

\* the condition of main's `if st.button(...) and topic`
Triggered(pressed, t) == pressed /\ t # ""

\* a fresh run of the script: nothing of the previous run is kept
FreshRun(t) ==
    /\ mpc = "idle"
    /\ runs < MaxRuns
    /\ runs' = runs + 1
    /\ topic' = t
    /\ image_url' = Unset
    /\ story' = Unset
    /\ gen_result' = [image |-> <<"pending">>, story |-> <<"pending">>]

\* leaving safe_api_call: its frame is gone
LeaveSafeApiCall ==
    /\ pc' = "idle"
    /\ UNCHANGED <<func, max_retries, base_delay, attempt, calls, hist, result>>

\* an exception with text e reaches main's except clause; the script ends
FailRun(e) ==
    /\ stage' = "FAILED"
    /\ reason' = e
    /\ trace' = trace \o Handler(e) \o Footer
    /\ mpc' = "idle"

\* a script run in which the button was not pressed or the topic is empty
RerunNoGenerate(t, pressed) ==
    /\ ~Triggered(pressed, t)
    /\ FreshRun(t)
    /\ stage' = "IDLE"
    /\ reason' = Unset
    /\ trace' = Header \o Footer
    /\ mpc' = "idle"
    /\ UNCHANGED execVars

\* button pressed, but initialize_together_client raises
GenerateInitFails(t) ==
    /\ Triggered(TRUE, t)
    /\ FreshRun(t)
    /\ stage' = "IDLE"
    /\ reason' = SecretsErrText
    /\ trace' = Header
                \o << <<"error", "Failed to initialize API client. Check if your API key is properly set in secrets.toml">> >>
                \o Handler(SecretsErrText) \o Footer
    /\ mpc' = "idle"
    /\ UNCHANGED execVars

\* button pressed: create_story_app starts and generate_image calls safe_api_call
GenerateStart(t) ==
    /\ Triggered(TRUE, t)
    /\ FreshRun(t)
    /\ stage' = "GENERATING_IMAGE"
    /\ reason' = Unset
    /\ trace' = Header \o << <<"info", "Step 1/2: Generating image...">> >>
    /\ mpc' = "generating"
    /\ EnterSafeApiCall(ImageRequest(t), DefaultMaxRetries, DefaultBaseDelay)

\* mutant of ImageReturned: generate_story called without the pause
ImageReturnedNoPause ==
    /\ mpc = "generating"
    /\ stage = "GENERATING_IMAGE"
    /\ pc = "return"
    /\ image_url' = result
    /\ gen_result' = [gen_result EXCEPT !.image = <<"return", result>>]
    /\ IF ~Truthy(result)
       THEN /\ FailRun(ImageFailedText)
            /\ LeaveSafeApiCall
       ELSE /\ trace' = Append(trace, <<"info", "Step 2/2: Creating story...">>)
            /\ stage' = "GENERATING_STORY"
            /\ EnterSafeApiCall(StoryRequest(result, topic), DefaultMaxRetries, DefaultBaseDelay)
            /\ UNCHANGED <<reason, mpc>>
    /\ UNCHANGED <<topic, story, runs>>

\* generate_image returned: the check of image_url, the pause, generate_story
ImageReturned ==
    /\ mpc = "generating"
    /\ stage = "GENERATING_IMAGE"
    /\ pc = "return"
    /\ image_url' = result
    /\ gen_result' = [gen_result EXCEPT !.image = <<"return", result>>]
    /\ IF ~Truthy(result)
       THEN /\ FailRun(ImageFailedText)
            /\ LeaveSafeApiCall
       ELSE /\ trace' = trace \o << <<"sleep", StagePause, "create_story_app">>,
                                    <<"info", "Step 2/2: Creating story...">> >>
            /\ stage' = "GENERATING_STORY"
            /\ EnterSafeApiCall(StoryRequest(result, topic), DefaultMaxRetries, DefaultBaseDelay)
            /\ UNCHANGED <<reason, mpc>>
    /\ UNCHANGED <<topic, story, runs>>

\* generate_story returned: the check of story, the return to main, st.success
StoryReturned ==
    /\ mpc = "generating"
    /\ stage = "GENERATING_STORY"
    /\ pc = "return"
    /\ story' = result
    /\ gen_result' = [gen_result EXCEPT !.story = <<"return", result>>]
    /\ IF ~Truthy(result)
       THEN FailRun(StoryFailedText)
       ELSE /\ stage' = "DONE"
            /\ trace' = trace \o << <<"success", "Your story has been created!">>,
                                    <<"markdown", "---">> >>
            /\ mpc' = "display"
            /\ UNCHANGED reason
    /\ LeaveSafeApiCall
    /\ UNCHANGED <<topic, image_url, runs>>

\* safe_api_call raised: the exception passes through the generator and
\* create_story_app to main's except clause
StageRaised ==
    /\ mpc = "generating"
    /\ pc = "raise"
    /\ gen_result' = IF stage = "GENERATING_IMAGE"
                     THEN [gen_result EXCEPT !.image = <<"raise", result>>]
                     ELSE [gen_result EXCEPT !.story = <<"raise", result>>]
    /\ FailRun(result)
    /\ LeaveSafeApiCall
    /\ UNCHANGED <<topic, image_url, story, runs>>

\* display_story, then the footer
DisplayStory(f) ==
    /\ mpc = "display"
    /\ f \in FetchOutcomes
    /\ trace' = trace \o DisplayOutput(image_url, story, f) \o Footer
    /\ mpc' = "idle"
    /\ UNCHANGED <<stage, topic, image_url, story, reason, gen_result, runs>>
    /\ UNCHANGED execVars

Init ==
    /\ mpc = "idle"
    /\ stage = "IDLE"
    /\ topic = ""
    /\ image_url = Unset
    /\ story = Unset
    /\ reason = Unset
    /\ gen_result = [image |-> <<"pending">>, story |-> <<"pending">>]
    /\ trace = <<>>
    /\ runs = 0
    /\ pc = "idle"
    /\ func = StubRequest
    /\ max_retries = DefaultMaxRetries
    /\ base_delay = DefaultBaseDelay
    /\ attempt = 0
    /\ calls = 0
    /\ hist = <<>>
    /\ result = Unset

Next ==
    \/ \E t \in Topics, pressed \in BOOLEAN : RerunNoGenerate(t, pressed)
    \/ \E t \in Topics : GenerateInitFails(t)
    \/ \E t \in Topics : GenerateStart(t)
    \/ ForLoop
    \/ \E v \in ImageUrls \cup StoryTexts : FuncReturns(v)
    \/ \E e \in ErrTexts : FuncRaises(e)
    \/ ImageReturned
    \/ StoryReturned
    \/ StageRaised
    \/ \E f \in FetchOutcomes : DisplayStory(f)

Spec == Init /\ [][Next]_vars

----------------------------------------------------------------------------
(* Vocabulary of the properties *)

IsSleepEvent(ev) == ev[1] = "sleep"
IsBackoffEvent(ev) == ev[1] = "sleep" /\ ev[3] = "safe_api_call"
IsPauseEvent(ev) == ev[1] = "sleep" /\ ev[3] = "create_story_app"
IsWarningEvent(ev) == ev[1] = "warning"
IsErrorEvent(ev) == ev[1] = "error"
IsRequestEvent(ev) == ev[1] = "request"
IsStoryRequestEvent(ev) == ev[1] = "request" /\ ev[2] = "chat.completions.create"
IsImageRequestEvent(ev) == ev[1] = "request" /\ ev[2] = "images.generate"

\* the durations slept by safe_api_call, in order
BackoffDelays(tr) ==
    LET s == SelectSeq(tr, IsBackoffEvent) IN [i \in 1..Len(s) |-> s[i][2]]

\* an absent value: None or the empty string
IsAbsent(v) == v[1] = "None" \/ (v[1] = "str" /\ v[2] = "")

\* the entry of hist is a raised error carrying the "429" marker
RateLimitedAt(h, i) == h[i][1] = "raise" /\ Contains(<<"4", "2", "9">>, h[i][2])

\* every invocation so far raised a rate-limit-marked error
AllRateLimited(h) == \A i \in 1..Len(h) : RateLimitedAt(h, i)

\* safe_api_call has ended, by return or by raise
Ended == pc \in {"return", "raise"}

----------------------------------------------------------------------------
(* C1..C5: safe_api_call, checked under SpecExec *)

\* C1: for max_retries >= 1 and a callable that raises rate-limit-marked
\* errors on its first N < max_retries invocations and then succeeds:
\* after those N failures safe_api_call has not ended (it goes on to
\* invocation N+1), and when invocation N+1 returns a value, safe_api_call
\* returns that value with the callable invoked exactly N+1 times.
C1_RetryThenSuccess ==
    max_retries >= 1 =>
        /\ (AllRateLimited(hist) /\ Len(hist) < max_retries) =>
               /\ pc \in {"for", "func"}
               /\ calls = (IF pc = "for" THEN Len(hist) ELSE Len(hist) + 1)
        /\ \A N \in 0..(max_retries - 1) :
               ( /\ Len(hist) = N + 1
                 /\ AllRateLimited(SubSeq(hist, 1, N))
                 /\ hist[N + 1][1] = "return" ) =>
                     /\ pc = "return"
                     /\ result = hist[N + 1][2]
                     /\ calls = N + 1

C1_Witness ==
    /\ max_retries = 3
    /\ Len(hist) = 3
    /\ AllRateLimited(SubSeq(hist, 1, 2))
    /\ hist[3][1] = "return"
    /\ pc = "return"
    /\ result = Str("ok")
    /\ calls = 3

C3_NonRateLimitNotRetried ==
    \A k \in 1..Len(hist) :
        (hist[k][1] = "raise" /\ ~Contains(<<"4", "2", "9">>, hist[k][2])) =>
            /\ k = Len(hist)
            /\ calls = k
            /\ pc = "raise"
            /\ result = hist[k][2]
            /\ Len(SelectSeq(trace, IsSleepEvent)) = k - 1
            /\ Len(SelectSeq(trace, IsWarningEvent)) = k - 1
            /\ Len(SelectSeq(trace, IsRequestEvent)) = k

C3_Witness ==
    /\ Len(hist) = 2
    /\ RateLimitedAt(hist, 1)
    /\ hist[2] = <<"raise", AuthText>>
    /\ pc = "raise"
    /\ result = AuthText

\* C4: the i-th backoff delay of a call (the one slept between failed attempt
\* i and attempt i+1) is base_delay * i; delays are slept only between
\* attempts (one fewer than the invocations once an invocation is under way or
\* the call has ended); and a call with max_retries = 3, base_delay = 2 that is
\* rate-limited on every attempt sleeps exactly [2, 4].
C4_BackoffSequence ==
    LET d == BackoffDelays(trace) IN
    /\ \A i \in 1..Len(d) : d[i] = base_delay * i
    /\ Len(d) = (IF pc = "for" \/ calls = 0 THEN calls ELSE calls - 1)
    /\ (Ended /\ max_retries = 3 /\ base_delay = 2 /\ calls = 3 /\ AllRateLimited(hist))
           => d = <<2, 4>>

C4_Witness ==
    /\ max_retries = 3
    /\ base_delay = 2
    /\ pc = "raise"
    /\ AllRateLimited(hist)
    /\ BackoffDelays(trace) = <<2, 4>>

----------------------------------------------------------------------------
(* C5..C10: the script, checked under Spec *)

\* index of the last st.info event of tr (0 when there is none): the start of
\* the current generator stage
LastInfoIndex(tr) ==
    CHOOSE i \in 0..Len(tr) :
        /\ (i = 0 \/ tr[i][1] = "info")
        /\ \A j \in (i + 1)..Len(tr) : tr[j][1] # "info"

\* the events of the stage under way (or of the last stage entered)
SinceLastInfo(tr) == SubSeq(tr, LastInfoIndex(tr) + 1, Len(tr))

\* a generator stage ended by safe_api_call raising, every attempt rate-limited
StageExhausted ==
    /\ stage = "FAILED"
    /\ (gen_result.image[1] = "raise" \/ gen_result.story[1] = "raise")
    /\ AllRateLimited(hist)

\* C5 (as the spec states it): with the defaults max_retries = 3 and
\* base_delay = 2, a call that is rate-limited on every attempt waits 2, then
\* 4, then 6.
C5_DelaysTwoFourSix ==
    StageExhausted => BackoffDelays(SinceLastInfo(trace)) = <<2, 4, 6>>

\* C5 (amended): with the defaults max_retries = 3 and base_delay = 2 a call
\* of safe_api_call sleeps at most two delays, the i-th being 2 * i, and a
\* call that is rate-limited on every attempt waits 2, then 4, and then
\* raises without a third wait: no delay of 6 is ever slept.
C5_DefaultDelaysTwoFour ==
    LET d == BackoffDelays(SinceLastInfo(trace)) IN
    /\ max_retries = 3 /\ base_delay = 2
    /\ Len(d) <= 2
    /\ \A i \in 1..Len(d) : d[i] = 2 * i
    /\ StageExhausted => (d = <<2, 4>> /\ calls = 3)

C5_Witness ==
    /\ StageExhausted
    /\ gen_result.story[1] = "raise"
    /\ BackoffDelays(SinceLastInfo(trace)) = <<2, 4>>

\* generate_image returned an absent value, or raised
ImageFailed ==
    \/ gen_result.image[1] = "return" /\ IsAbsent(gen_result.image[2])
    \/ gen_result.image[1] = "raise"

\* C6: once image generation has failed (absent result, or an error raised),
\* generate_story is never invoked in that run: no text-generation request is
\* sent, the pause between the stages is not taken, and the orchestrator is
\* in FAILED with a reason, which main's handler shows.
C6_ImageFailureShortCircuits ==
    ImageFailed =>
        /\ gen_result.story[1] = "pending"
        /\ story[1] = "unset"
        /\ Len(SelectSeq(trace, IsStoryRequestEvent)) = 0
        /\ Len(SelectSeq(trace, IsPauseEvent)) = 0
        /\ stage = "FAILED"
        /\ mpc = "idle"
        /\ reason = (IF gen_result.image[1] = "raise"
                     THEN gen_result.image[2]
                     ELSE ImageFailedText)
        /\ \E i \in 1..Len(trace) :
               /\ trace[i][1] = "error"
               /\ trace[i][2] = "Error details"
               /\ trace[i][3] = reason

C6_Witness ==
    /\ gen_result.image[1] = "return"
    /\ gen_result.image[2][1] = "str"
    /\ gen_result.image[2][2] = ""
    /\ stage = "FAILED"
    /\ reason = ImageFailedText

\* C7: a run (its topic is non-empty) in which the image call and the text
\* call succeed, each returning its payload, ends in DONE with the pair
\* (image reference, story text) made of those payloads, neither absent; and
\* after a successful image call the run fails only if the story stage does.
C7_SuccessYieldsPair ==
    /\ ( /\ gen_result.image[1] = "return" /\ ~IsAbsent(gen_result.image[2])
         /\ gen_result.story[1] = "return" /\ ~IsAbsent(gen_result.story[2]) ) =>
            /\ topic # ""
            /\ stage = "DONE"
            /\ mpc \in {"display", "idle"}
            /\ reason[1] = "unset"
            /\ image_url = gen_result.image[2]
            /\ story = gen_result.story[2]
            /\ ~IsAbsent(image_url) /\ ~IsAbsent(story)
    /\ ( /\ gen_result.image[1] = "return" /\ ~IsAbsent(gen_result.image[2])
         /\ gen_result.story[1] = "pending" ) =>
            /\ stage = "GENERATING_STORY"
            /\ image_url = gen_result.image[2]
    /\ stage = "DONE" => (~IsAbsent(image_url) /\ ~IsAbsent(story))

C7_Witness ==
    /\ stage = "DONE"
    /\ mpc = "idle"
    /\ topic = "a robot"
    /\ image_url[2] = "https://img/1"
    /\ story[2] = "Once upon a time"
    /\ Len(SelectSeq(trace, IsRequestEvent)) = 2

\* display_story reported, as event i, that the image could not be shown
DisplayFailedAt(i) ==
    /\ trace[i][1] = "error"
    /\ trace[i][2] = "Image display failed. Here's the URL:"

\* C8: when fetching or decoding the image fails in display_story, the raw
\* image URL is shown as a fallback, the story text is still written after
\* it, and the failure does not leave display_story: main's failure handler
\* does not run and the run stays DONE.
C8_DisplayFailureIsolated ==
    \A i \in 1..Len(trace) :
        DisplayFailedAt(i) =>
            /\ i + 4 <= Len(trace)
            /\ trace[i + 1][1] = "code" /\ trace[i + 1][2] = image_url
            /\ trace[i + 3][1] = "markdown"
            /\ trace[i + 4][1] = "write" /\ trace[i + 4][2] = story
            /\ ~IsAbsent(story)
            /\ stage = "DONE"
            /\ reason[1] = "unset"
            /\ \A j \in 1..Len(trace) :
                   ~(trace[j][1] = "error" /\ trace[j][2] = "Something went wrong!")

C8_Witness ==
    /\ mpc = "idle"
    /\ stage = "DONE"
    /\ \E i \in 1..Len(trace) :
           /\ DisplayFailedAt(i)
           /\ trace[i + 2][1] = "error"
           /\ trace[i + 2][3] = TimeoutText
           /\ trace[i + 4][1] = "write"
           /\ trace[i + 4][2] = Str("Once upon a time")

\* all DefaultMaxRetries attempts of the last safe_api_call were made and
\* each raised a rate-limit-marked error: total failure after the retries
RetriesExhausted ==
    /\ calls = DefaultMaxRetries
    /\ Len(hist) = DefaultMaxRetries
    /\ AllRateLimited(hist)

\* the generator that ran last in this run
LastGenerator == IF gen_result.story[1] # "pending" THEN "story" ELSE "image"

\* C9: a completed invocation of generate_image or generate_story yields the
\* expected payload or an absent value; total failure after the retries were
\* exhausted is signalled by the absent value being yielded; and an absent
\* value short-circuits the orchestration (FAILED, no later stage).
C9_AbsentSignalsExhaustion ==
    /\ (gen_result[LastGenerator][1] # "pending" /\ RetriesExhausted) =>
           /\ gen_result[LastGenerator][1] = "return"
           /\ IsAbsent(gen_result[LastGenerator][2])
    /\ \A g \in {"image", "story"} :
           (gen_result[g][1] = "return" /\ IsAbsent(gen_result[g][2])) =>
               /\ stage = "FAILED"
               /\ g = "image" => gen_result.story[1] = "pending"

\* the failing stage's safe_api_call raised on its last permitted attempt
RaisedOnLastAttempt ==
    /\ (gen_result.image[1] = "raise" \/ gen_result.story[1] = "raise")
    /\ calls = DefaultMaxRetries

\* C10 (as the spec states it): every generation failure shows the user a
\* single error message, and the troubleshooting guidance.
C10_SingleErrorMessage ==
    stage = "FAILED" =>
        /\ Len(SelectSeq(trace, IsErrorEvent)) = 1
        /\ \E i \in 1..Len(trace) :
               trace[i][1] = "markdown" /\ trace[i][2] = "### Troubleshooting Tips:"

\* C10 (amended): every generation failure shows the user two error messages
\* from main's handler ("Something went wrong!" and the error details with
\* the failure's text), preceded by one more error message ("Failed after
\* ... attempts") from safe_api_call exactly when the failure was raised on
\* the last permitted attempt, so two or three error messages in all,
\* followed by the troubleshooting heading and its four tips, once.
C10_ErrorMessages ==
    stage = "FAILED" =>
        LET errs == SelectSeq(trace, IsErrorEvent)
            n == Len(trace)
        IN  /\ Len(errs) = (IF RaisedOnLastAttempt THEN 3 ELSE 2)
            /\ errs[Len(errs) - 1][2] = "Something went wrong!"
            /\ errs[Len(errs)][2] = "Error details"
            /\ errs[Len(errs)][3] = reason
            /\ RaisedOnLastAttempt =>
                   /\ errs[1][2] = "Failed after"
                   /\ errs[1][3] = DefaultMaxRetries
                   /\ errs[1][4] = reason
            /\ Len(SelectSeq(trace, IsWarningEvent)) <= 2 * (DefaultMaxRetries - 1)
            /\ n >= 9
            /\ trace[n - 8][1] = "error" /\ trace[n - 7][1] = "error"
            /\ trace[n - 6][1] = "markdown" /\ trace[n - 6][2] = "### Troubleshooting Tips:"
            /\ \A k \in 2..5 : trace[n - k][1] = "write"
            /\ Len(SelectSeq(trace, LAMBDA ev : ev[1] = "markdown"
                                         /\ ev[2] = "### Troubleshooting Tips:")) = 1

C10_Witness ==
    /\ stage = "FAILED"
    /\ gen_result.story[1] = "raise"
    /\ reason = RateLimitText
    /\ Len(SelectSeq(trace, IsErrorEvent)) = 3

----------------------------------------------------------------------------
(* C11..C17 *)

\* the positions of tr whose event satisfies Test
Positions(tr, Test(_)) == {i \in 1..Len(tr) : Test(tr[i])}

\* C11 (Spec): within a run the stages are strictly sequential.  A
\* text-generation request is sent only after generate_image returned a
\* non-absent image reference (the one the story prompt names) and after the
\* pause of 2; the pause is taken at most once, exactly once on the path that
\* reaches the story stage, and only on that path; and every image-generation
\* request precedes the pause, so none is sent once the story stage has begun.
C11_StagesSequential ==
    LET P == Positions(trace, IsPauseEvent)
        S == Positions(trace, IsStoryRequestEvent)
        I == Positions(trace, IsImageRequestEvent)
    IN  /\ Cardinality(P) <= 1
        /\ \A p \in P : trace[p][2] = 2 /\ \A i \in I : i < p
        /\ P # {} <=> stage \in {"GENERATING_STORY", "DONE"} \/ gen_result.story[1] # "pending"
        /\ P # {} => /\ gen_result.image[1] = "return"
                     /\ ~IsAbsent(gen_result.image[2])
                     /\ image_url = gen_result.image[2]
        /\ \A j \in S :
               /\ Cardinality(P) = 1
               /\ \A p \in P : p < j
               /\ \A i \in I : i < j
               /\ trace[j][3][2] = image_url
               /\ ~IsAbsent(image_url)
        /\ (stage = "GENERATING_STORY" /\ pc = "func") => S # {}

C11_Witness ==
    /\ stage = "GENERATING_STORY"
    /\ pc = "func"
    /\ Cardinality(Positions(trace, IsImageRequestEvent)) = 2
    /\ Cardinality(Positions(trace, IsStoryRequestEvent)) = 2
    /\ Cardinality(Positions(trace, IsPauseEvent)) = 1

\* C12 (SpecExec): safe_api_call warns immediately before every backoff
\* delay and at no other time.  The warnings are as many as the delays and as
\* the retries (the invocations after the first); each warning follows a
\* failed invocation, announces the delay slept right after it and the number
\* of the next attempt, and the next invocation comes right after that delay.
C12_WarningBeforeEachDelay ==
    LET n == Len(trace)
        W == Positions(trace, IsWarningEvent)
        D == Positions(trace, IsSleepEvent)
        R == Positions(trace, IsRequestEvent)
    IN  /\ Cardinality(W) = Cardinality(D)
        /\ Cardinality(R) = calls
        /\ Cardinality(W) = (IF pc = "for" \/ calls = 0 THEN calls ELSE calls - 1)
        /\ (Ended /\ calls >= 1) => Cardinality(W) = calls - 1
        /\ \A i \in W :
               /\ i > 1 /\ (i - 1) \in R
               /\ (i + 1) \in D
               /\ trace[i + 1][2] = trace[i][2]
               /\ trace[i][3] = Cardinality({r \in R : r < i}) + 1
               /\ (i + 2 <= n) => (i + 2) \in R
        /\ \A i \in D : i > 1 /\ (i - 1) \in W
        /\ \A i \in R : i > 1 => (i - 1) \in D

C12_Witness ==
    /\ Ended
    /\ calls = 3
    /\ Cardinality(Positions(trace, IsWarningEvent)) = 2
    /\ Cardinality(Positions(trace, IsSleepEvent)) = 2
    /\ Len(trace) = 7
    /\ trace[2][1] = "warning" /\ trace[3][1] = "sleep" /\ trace[4][1] = "request"

\* st.success was called in this run
SuccessShown == \E i \in 1..Len(trace) : trace[i][1] = "success"

\* C13 (Spec): a run of create_story_app ends in exactly one of DONE and
\* FAILED.  DONE is reached only with a non-absent image reference and a
\* non-absent story text, and yields that pair with no failure reason; FAILED
\* carries a reason and no success is shown; a story stage that returns an
\* absent or empty result leads to FAILED with the reason "Story generation
\* failed", never to DONE with a partial pair.
C13_TerminalStates ==
    /\ (mpc # "generating" /\ gen_result.image[1] # "pending") => stage \in {"DONE", "FAILED"}
    /\ (mpc = "generating") <=> stage \in {"GENERATING_IMAGE", "GENERATING_STORY"}
    /\ stage = "DONE" =>
           /\ gen_result.image[1] = "return" /\ ~IsAbsent(gen_result.image[2])
           /\ gen_result.story[1] = "return" /\ ~IsAbsent(gen_result.story[2])
           /\ image_url = gen_result.image[2]
           /\ story = gen_result.story[2]
           /\ reason[1] = "unset"
           /\ SuccessShown
    /\ stage = "FAILED" =>
           /\ reason[1] # "unset"
           /\ ~SuccessShown
           /\ \/ gen_result.image[1] = "raise"
              \/ gen_result.story[1] = "raise"
              \/ gen_result.image[1] = "return" /\ IsAbsent(gen_result.image[2])
              \/ gen_result.story[1] = "return" /\ IsAbsent(gen_result.story[2])
    /\ (gen_result.story[1] = "return" /\ IsAbsent(gen_result.story[2])) =>
           /\ stage = "FAILED"
           /\ reason = StoryFailedText
           /\ mpc = "idle"

C13_Witness ==
    /\ stage = "FAILED"
    /\ gen_result.story[1] = "return"
    /\ gen_result.story[2][1] = "str"
    /\ gen_result.story[2][2] = ""
    /\ reason = StoryFailedText
    /\ image_url[2] = "https://img/1"

\* safe_api_call ended by falling out of its loop (return None of the last line)
FellThrough ==
    /\ pc = "return"
    /\ (Len(hist) = 0 \/ hist[Len(hist)][1] # "return")

C15_RetryStatePerCall ==
    /\ mpc = "generating" =>
           LET st == SinceLastInfo(trace)
               d == BackoffDelays(st)
               nreq == Len(SelectSeq(st, IsRequestEvent))
           IN  /\ max_retries = DefaultMaxRetries
               /\ base_delay = DefaultBaseDelay
               /\ attempt = Len(d)
               /\ calls = nreq
               /\ Len(hist) = (IF pc = "func" THEN nreq - 1 ELSE nreq)
               /\ Len(d) >= 1 => d[1] = DefaultBaseDelay
               /\ (pc = "for" /\ nreq = 0) =>
                      (attempt = 0 /\ Len(hist) = 0 /\ result[1] = "unset")
    /\ (stage = "FAILED" /\ gen_result.story[1] = "raise" /\ AllRateLimited(hist)) =>
           /\ Len(SelectSeq(trace, IsStoryRequestEvent)) = DefaultMaxRetries
           /\ BackoffDelays(SinceLastInfo(trace)) = <<DefaultBaseDelay, 2 * DefaultBaseDelay>>

C15_Witness ==
    /\ runs = 2
    /\ stage = "FAILED"
    /\ gen_result.story[1] = "raise"
    /\ Len(SelectSeq(trace, IsImageRequestEvent)) = 3
    /\ Len(SelectSeq(trace, IsStoryRequestEvent)) = 3
    /\ BackoffDelays(trace) = <<2, 4, 2, 4>>

\* the steps the single thread of the script takes by itself, the answers of
\* the remote service and of the image fetch included
Progress ==
    \/ ForLoop
    \/ \E v \in ImageUrls \cup StoryTexts : FuncReturns(v)
    \/ \E e \in ErrTexts : FuncRaises(e)
    \/ ImageReturned
    \/ StoryReturned
    \/ StageRaised
    \/ \E f \in FetchOutcomes : DisplayStory(f)

\* the script under the assumption that every blocking call returns or fails
\* and the thread keeps running; the user's interactions are not forced
SpecLive == Init /\ [][Next]_vars /\ WF_vars(Progress)

\* the backoff delays slept before / after the pause between the stages
ImageStageBackoffs ==
    {i \in Positions(trace, IsBackoffEvent) :
        \A p \in Positions(trace, IsPauseEvent) : i < p}
StoryStageBackoffs ==
    {i \in Positions(trace, IsBackoffEvent) :
        \E p \in Positions(trace, IsPauseEvent) : i > p}

\* at most max_retries requests and max_retries - 1 delays per stage
ResourceBounds ==
    /\ Cardinality(Positions(trace, IsImageRequestEvent)) <= DefaultMaxRetries
    /\ Cardinality(Positions(trace, IsStoryRequestEvent)) <= DefaultMaxRetries
    /\ Cardinality(ImageStageBackoffs) <= DefaultMaxRetries - 1
    /\ Cardinality(StoryStageBackoffs) <= DefaultMaxRetries - 1

\* C16 (SpecLive): if every remote call eventually returns or fails, every
\* run of create_story_app eventually reaches DONE or FAILED, and a run never
\* sends more than 3 image requests and 3 text requests nor sleeps more than
\* 2 backoff delays per stage.
C16_RunTerminatesWithinBounds ==
    /\ [] ResourceBounds
    /\ (stage \in {"GENERATING_IMAGE", "GENERATING_STORY"}) ~> (stage \in {"DONE", "FAILED"})

C16_Witness ==
    /\ stage = "DONE"
    /\ Cardinality(Positions(trace, IsImageRequestEvent)) = 3
    /\ Cardinality(Positions(trace, IsStoryRequestEvent)) = 3
    /\ Cardinality(ImageStageBackoffs) = 2
    /\ Cardinality(StoryStageBackoffs) = 2

IsFailedAfterEvent(ev) == ev[1] = "error" /\ ev[2] = "Failed after"

\* C17 (SpecExec): safe_api_call emits its "Failed after max_retries
\* attempts" error exactly when it raises on the last permitted attempt
\* (attempt index max_retries - 1), whatever the error: an error without the
\* rate-limit marker on an earlier attempt is raised without the message, one
\* on the last attempt (the only attempt when max_retries = 1) with it.  The
\* message is the last thing emitted and names max_retries and the error.
C17_FailedAfterOnLastAttempt ==
    LET F == Positions(trace, IsFailedAfterEvent) IN
    /\ Cardinality(F) <= 1
    /\ pc # "raise" => F = {}
    /\ pc = "raise" =>
           /\ attempt = Len(hist) - 1
           /\ F # {} <=> Len(hist) = max_retries
           /\ (Len(hist) < max_retries) => ~Contains(<<"4", "2", "9">>, result)
    /\ \A i \in F :
           /\ i = Len(trace)
           /\ trace[i][3] = max_retries
           /\ trace[i][4] = result

C17_Witness ==
    /\ max_retries = 1
    /\ pc = "raise"
    /\ result = AuthText
    /\ Len(trace) = 2
    /\ IsFailedAfterEvent(trace[2])

====
